---- MODULE Spec2Model ----
(***************************************************************************)
(* is-academic-email: the runtime classification engine (src/src/index.ts) *)
(* and the offline dataset builder (src/unnamed/part_000).                 *)
(*                                                                         *)
(* A JavaScript string is modelled as a sequence of one-character strings, *)
(* so that trimming, lowercasing, searching, splitting and joining are     *)
(* computed character by character as the code computes them.              *)
(***************************************************************************)
EXTENDS Naturals, Integers, Sequences, FiniteSets, TLC

VARIABLES
    pc,         \* position of the process that the specification runs
    input,      \* the string handed to domainParts
    parts,      \* the label sequence domainParts returned
    artifact,   \* data.json.br as the loader finds it
    DATA,       \* the module-level dataset built by loadData
    heap,       \* the arrays of the runtime, by reference
    held,       \* the array findSchoolNames last returned to the caller (0: none)
    call,       \* the last query: its name, argument and result
    loaded,     \* the contents of the dataset right after loadData
    institutions,   \* readSwot: the Map from domain to school names
    stoplist,       \* readSwot: the Set of stoplisted domains
    tlds,           \* readSwot: the Set of academic TLDs
    walked          \* the institution files the walk has yielded so far, in order

normVars == <<input, parts>>
engineVars == <<artifact, DATA, heap, held, call, loaded>>
buildVars == <<institutions, stoplist, tlds, walked>>
vars == <<pc, input, parts, artifact, DATA, heap, held, call, loaded,
          institutions, stoplist, tlds, walked>>

(***************************************************************************)
(* Characters                                                              *)
(***************************************************************************)
WhiteSpace == {" "}
LowerLetters == {"a", "e", "r", "s", "u", "x"}

\* the two non-ASCII letters of the model, e-acute and E-acute, each one character
EAcute == "U+00E9"
CapitalEAcute == "U+00C9"
NonAscii == {EAcute, CapitalEAcute}

\* String.prototype.toLowerCase on one character
lowerChar(c) ==
    IF c = "A" THEN "a"
    ELSE IF c = CapitalEAcute THEN EAcute
    ELSE c

\* the characters of a string, the positions of a character, least and greatest
Chars(s) == {s[i] : i \in 1..Len(s)}
Positions(s, c) == {i \in 1..Len(s) : s[i] = c}
Least(S) == CHOOSE i \in S : \A j \in S : i <= j
Greatest(S) == CHOOSE i \in S : \A j \in S : j <= i

\* every string over alphabet A of length at most n
Strings(A, n) == UNION {[1..k -> A] : k \in 0..n}

(***************************************************************************)
(* String primitives of the JavaScript runtime                             *)
(***************************************************************************)
toLowerCase(s) == [i \in 1..Len(s) |-> lowerChar(s[i])]

RECURSIVE trimStart(_)
trimStart(s) ==
    IF s # <<>> /\ Head(s) \in WhiteSpace THEN trimStart(Tail(s)) ELSE s

RECURSIVE trimEnd(_)
trimEnd(s) ==
    IF s # <<>> /\ s[Len(s)] \in WhiteSpace
    THEN trimEnd(SubSeq(s, 1, Len(s) - 1))
    ELSE s

trim(s) == trimEnd(trimStart(s))

\* s.indexOf(c): 0-based position of the first c, -1 when there is none
RECURSIVE indexFrom(_, _, _)
indexFrom(s, c, i) ==
    IF i > Len(s) THEN -1
    ELSE IF s[i] = c THEN i - 1
    ELSE indexFrom(s, c, i + 1)

indexOf(s, c) == indexFrom(s, c, 1)

\* s.substring(start), start 0-based
substring(s, start) == SubSeq(s, start + 1, Len(s))

\* s.split(c): the pieces between the occurrences of c (never empty)
RECURSIVE split(_, _)
split(s, c) ==
    LET i == indexOf(s, c)
    IN  IF i = -1 THEN <<s>>
        ELSE <<SubSeq(s, 1, i)>> \o split(substring(s, i + 1), c)

\* Array.prototype.reverse
reverse(a) == [i \in 1..Len(a) |-> a[Len(a) + 1 - i]]

\* length of the longest prefix of s matching [a-z]*
RECURSIVE lettersPrefix(_)
lettersPrefix(s) ==
    IF s # <<>> /\ Head(s) \in LowerLetters
    THEN 1 + lettersPrefix(Tail(s))
    ELSE 0

\* s.replace(/^[a-z]+:\/\//, '')
replaceScheme(s) ==
    LET n == lettersPrefix(s)
    IN  IF n >= 1 /\ Len(s) >= n + 3
           /\ SubSeq(s, n + 1, n + 3) = <<":", "/", "/">>
        THEN substring(s, n + 3)
        ELSE s

\* 1-based position of the last c among the first n characters of s, 0 if none
RECURSIVE lastIndexWithin(_, _, _)
lastIndexWithin(s, c, n) ==
    IF n = 0 THEN 0
    ELSE IF s[n] = c THEN n
    ELSE lastIndexWithin(s, c, n - 1)

\* s.replace(/^[^/]*@/, ''): the greedy [^/]* stops before the first '/', and
\* backtracks to the last '@' of that stretch
replaceUserInfo(s) ==
    LET slash == indexOf(s, "/")
        reach == IF slash = -1 THEN Len(s) ELSE slash
        at == lastIndexWithin(s, "@", reach)
    IN  IF at = 0 THEN s ELSE substring(s, at)

(***************************************************************************)
(* Domain Normalizer                                                       *)
(***************************************************************************)
\* mutant of hostOf: the local part is cut at the last '@' of the whole string
hostOfFinalAt(emailOrDomain) ==
    LET raw == toLowerCase(trim(emailOrDomain))
        afterAt == substring(raw, lastIndexWithin(raw, "@", Len(raw)))
        noScheme == replaceScheme(afterAt)
        noPath == split(noScheme, "/")[1]
    IN  split(noPath, ":")[1]

\* the host string that domainParts splits
hostOf(emailOrDomain) ==
    LET raw == toLowerCase(trim(emailOrDomain))
        afterAt == substring(raw, indexOf(raw, "@") + 1)
        noScheme == replaceScheme(afterAt)
        noUser == replaceUserInfo(noScheme)
        noPath == split(noUser, "/")[1]
    IN  split(noPath, ":")[1]

domainParts(emailOrDomain) ==
    LET host == hostOf(emailOrDomain)
    IN  IF host = <<>> THEN <<>> ELSE reverse(split(host, "."))


(***************************************************************************)
(* Dataset Loader                                                          *)
(***************************************************************************)
\* what the catch block substitutes: { institutions: {}, stoplist: [], tlds: [] }
EmptyPacked ==
    [has |-> {"institutions", "stoplist", "tlds"},
     institutions |-> <<>>, stoplist |-> <<>>, tlds |-> <<>>]

NoCall == [op |-> "none", arg |-> <<>>, bool |-> FALSE, names |-> <<>>]
NoData == [institutions |-> <<>>, stoplist |-> {}, tlds |-> {}]

\* the engine before its module is evaluated
EngineIdle ==
    /\ artifact = [status |-> "absent", json |-> EmptyPacked]
    /\ DATA = NoData
    /\ heap = <<>>
    /\ held = 0
    /\ call = NoCall
    /\ loaded = NoData

\* readFileSync, brotliDecompressSync or JSON.parse throws inside the try block
readThrows(a) == a.status \in {"absent", "unreadable", "undecompressable", "not_json"}

\* the value of `packed` after the try/catch
packedOf(a) == IF readThrows(a) THEN EmptyPacked ELSE a.json

\* the return statement dereferences packed.institutions, packed.stoplist and
\* packed.tlds outside the try block: a TypeError when packed is null or lacks one
returnThrows(a) ==
    LET packed == packedOf(a)
    IN  ~readThrows(a) /\
        (a.status = "null_json" \/ packed.has # {"institutions", "stoplist", "tlds"})

\* one array per institution entry, in a fixed order of the keys
keyOrder(keys) ==
    CHOOSE f \in [1..Cardinality(keys) -> keys] : \A k \in keys : \E i \in DOMAIN f : f[i] = k

\* mutant of lowerAll: the entries are kept as written
lowerNone(list) == {list[i] : i \in 1..Len(list)}

\* packed.stoplist.map((s) => s.toLowerCase())
lowerAll(list) == {toLowerCase(list[i]) : i \in 1..Len(list)}

\* the contents of a dataset: every institution key with the names in its array
contents(data, hp) ==
    [institutions |-> [k \in DOMAIN data.institutions |-> hp[data.institutions[k]]],
     stoplist |-> data.stoplist,
     tlds |-> data.tlds]

loadData ==
    /\ pc = "boot"
    /\ IF returnThrows(artifact)
       THEN /\ pc' = "crashed"
            /\ UNCHANGED <<DATA, heap, loaded>>
       ELSE LET packed == packedOf(artifact)
                keys == DOMAIN packed.institutions
                order == keyOrder(keys)
                hp == [r \in 1..Cardinality(keys) |-> packed.institutions[order[r]]]
                data == [institutions |->
                             [k \in keys |-> CHOOSE r \in DOMAIN order : order[r] = k],
                         stoplist |-> lowerAll(packed.stoplist),
                         tlds |-> lowerAll(packed.tlds)]
            IN  /\ DATA' = data
                /\ heap' = hp
                /\ loaded' = contents(data, hp)
                /\ pc' = "ready"
    /\ UNCHANGED <<artifact, held, call>>
    /\ UNCHANGED <<normVars, buildVars>>

(***************************************************************************)
(* Suffix Matcher and Classification Engine                                *)
(***************************************************************************)
\* subj = subj ? `${part}.${subj}` : part   (an empty string is falsy)
extend(subj, part) == IF subj # <<>> THEN part \o <<".">> \o subj ELSE part

RECURSIVE checkSetFrom(_, _, _, _)
checkSetFrom(set, ps, i, subj) ==
    IF i > Len(ps) THEN FALSE
    ELSE LET next == extend(subj, ps[i])
         IN  IF next \in set THEN TRUE ELSE checkSetFrom(set, ps, i + 1, next)

\* the labels of ps joined back into the host they came from
RECURSIVE joinHost(_)
joinHost(ps) ==
    IF ps = <<>> THEN <<>>
    ELSE IF Len(ps) = 1 THEN ps[1]
    ELSE joinHost(Tail(ps)) \o <<".">> \o ps[1]

\* mutant of checkSet: only the whole host is looked up, not its suffixes
checkSetExact(set, ps) == ps # <<>> /\ joinHost(ps) \in set

checkSet(set, ps) == checkSetFrom(set, ps, 1, <<>>)

isUnderTLD(emailOrDomain) == checkSet(DATA.tlds, domainParts(emailOrDomain))

isStoplisted(emailOrDomain) == checkSet(DATA.stoplist, domainParts(emailOrDomain))

\* the loop of findSchoolNames over the map inst (key -> names): the first
\* accumulated suffix that is a key with a non-empty array, as <<key>>, and <<>>
\* when the loop runs out
RECURSIVE findFrom(_, _, _, _)
findFrom(inst, ps, i, subj) ==
    IF i > Len(ps) THEN <<>>
    ELSE LET next == extend(subj, ps[i])
         IN  IF next \in DOMAIN inst /\ Len(inst[next]) > 0
             THEN <<next>>
             ELSE findFrom(inst, ps, i + 1, next)

\* the map DATA.institutions with each array read through the heap
institutionsNow == [k \in DOMAIN DATA.institutions |-> heap[DATA.institutions[k]]]

\* mutant of findSchoolRef: the most specific matching suffix wins
RECURSIVE findLastFrom(_, _, _, _, _)
findLastFrom(inst, ps, i, subj, best) ==
    IF i > Len(ps) THEN best
    ELSE LET next == extend(subj, ps[i])
         IN  IF next \in DOMAIN inst /\ Len(inst[next]) > 0
             THEN findLastFrom(inst, ps, i + 1, next, DATA.institutions[next])
             ELSE findLastFrom(inst, ps, i + 1, next, best)

findSchoolRefLast(emailOrDomain) ==
    findLastFrom(institutionsNow, domainParts(emailOrDomain), 1, <<>>, 0)

\* the reference of the array findSchoolNames found, 0 when it found none
findSchoolRef(emailOrDomain) ==
    LET hit == findFrom(institutionsNow, domainParts(emailOrDomain), 1, <<>>)
    IN  IF hit = <<>> THEN 0 ELSE DATA.institutions[hit[1]]

\* the names findSchoolNames returns, as a value
findSchoolNames(emailOrDomain) ==
    LET r == findSchoolRef(emailOrDomain)
    IN  IF r = 0 THEN <<>> ELSE heap[r]

\* [^\s@]
isLocalChar(c) == c \notin WhiteSpace /\ c # "@"

\* mutant of valid: nothing is required before or after the dot
validLoose(email) ==
    \E at \in 1..Len(email) : \E dot \in 1..Len(email) :
        /\ 1 < at /\ at < dot
        /\ email[at] = "@"
        /\ email[dot] = "."
        /\ \A i \in (1..Len(email)) \ {at, dot} : isLocalChar(email[i])

\* /^[^\s@]+@[^\s@]+\.[^\s@]+$/.test(email)
valid(email) ==
    \E at \in 1..Len(email) : \E dot \in 1..Len(email) :
        /\ 1 < at /\ at + 1 < dot /\ dot < Len(email)
        /\ email[at] = "@"
        /\ email[dot] = "."
        /\ \A i \in (1..Len(email)) \ {at, dot} : isLocalChar(email[i])

\* mutant of isAcademic: the stoplist is not consulted
isAcademicNoStoplist(email) ==
    valid(email) /\ (isUnderTLD(email) \/ Len(findSchoolNames(email)) > 0)

isAcademic(email) ==
    IF ~valid(email) THEN FALSE
    ELSE ~isStoplisted(email)
         /\ (isUnderTLD(email) \/ Len(findSchoolNames(email)) > 0)

(***************************************************************************)
(* The exported queries, called by the importing program                   *)
(***************************************************************************)
\* number of arrays that belong to the dataset
dataRefs == Cardinality(DOMAIN DATA.institutions)

BoolCall(op, e, result) ==
    /\ pc = "ready"
    /\ pc' = "returned"
    /\ call' = [op |-> op, arg |-> e, bool |-> result, names |-> <<>>]
    /\ UNCHANGED <<artifact, DATA, heap, held, loaded>>
    /\ UNCHANGED <<normVars, buildVars>>

IsAcademicCall(e) == BoolCall("isAcademic", e, isAcademic(e))

IsUnderTLDCall(e) == BoolCall("isUnderTLD", e, isUnderTLD(e))

IsStoplistedCall(e) == BoolCall("isStoplisted", e, isStoplisted(e))

\* mutant of sliceOf: the dataset's own array is handed out
aliasOf(found) == [ref |-> found, hp |-> SubSeq(heap, 1, dataRefs)]

\* names.slice(): a new array with the same elements; the array returned by the
\* previous call is no longer referenced and leaves the heap
sliceOf(found) ==
    [ref |-> dataRefs + 1, hp |-> Append(SubSeq(heap, 1, dataRefs), heap[found])]

FindSchoolNamesCall(e) ==
    /\ pc = "ready"
    /\ LET found == findSchoolRef(e)
           out == IF found = 0
                  THEN [ref |-> dataRefs + 1,
                        hp |-> Append(SubSeq(heap, 1, dataRefs), <<>>)]
                  ELSE sliceOf(found)
       IN  /\ heap' = out.hp
           /\ held' = out.ref
           /\ call' = [op |-> "findSchoolNames", arg |-> e, bool |-> FALSE,
                       names |-> out.hp[out.ref]]
    /\ pc' = "returned"
    /\ UNCHANGED <<artifact, DATA, loaded>>
    /\ UNCHANGED <<normVars, buildVars>>

\* what a caller may make of an array it was handed: empty it, overwrite its
\* first element, or push one more element
MaxNames == 2
mutations(a) ==
    {<<>>}
    \cup (IF a # <<>> THEN {[a EXCEPT ![1] = "Evil"]} ELSE {})
    \cup (IF Len(a) < MaxNames THEN {Append(a, "Evil")} ELSE {})

MutateReturned ==
    /\ pc = "ready"
    /\ held # 0
    /\ \E new \in mutations(heap[held]) : heap' = [heap EXCEPT ![held] = new]
    /\ UNCHANGED <<pc, artifact, DATA, held, call, loaded>>
    /\ UNCHANGED <<normVars, buildVars>>

\* the caller takes the result and goes on: it may query again
Resume ==
    /\ pc = "returned"
    /\ pc' = "ready"
    /\ call' = NoCall
    /\ UNCHANGED <<artifact, DATA, heap, held, loaded>>
    /\ UNCHANGED <<normVars, buildVars>>


(***************************************************************************)
(* Dataset Builder                                                         *)
(***************************************************************************)
BuildIdle ==
    /\ institutions = <<>>
    /\ stoplist = {}
    /\ tlds = {}
    /\ walked = <<>>

DotTxt == <<".", "t", "x", "t">>

\* file.endsWith(suffix)
endsWith(s, suffix) ==
    Len(s) >= Len(suffix) /\ SubSeq(s, Len(s) - Len(suffix) + 1, Len(s)) = suffix

\* last.replace(/\.txt$/i, '')
stripTxt(last) ==
    IF Len(last) >= 4 /\ toLowerCase(SubSeq(last, Len(last) - 3, Len(last))) = DotTxt
    THEN SubSeq(last, 1, Len(last) - 4)
    ELSE last

\* Punycode of one label (RFC 3492), in outline: the ASCII characters of the
\* label, a '-' when there are any, and ASCII digits and letters that encode the
\* others (e-acute alone gives xn--9ca)
asciiOnly(l) == SelectSeq(l, LAMBDA c : c \notin NonAscii)
RECURSIVE encodedTail(_)
encodedTail(l) ==
    IF l = <<>> THEN <<>>
    ELSE (IF Head(l) \in NonAscii THEN <<"9", "c", "a">> ELSE <<>>) \o encodedTail(Tail(l))

labelToASCII(l) ==
    IF Chars(l) \cap NonAscii = {} THEN l
    ELSE <<"x", "n", "-", "-">> \o asciiOnly(l)
         \o (IF asciiOnly(l) # <<>> THEN <<"-">> ELSE <<>>) \o encodedTail(l)

RECURSIVE joinWith(_, _)
joinWith(list, sep) ==
    IF list = <<>> THEN <<>>
    ELSE IF Len(list) = 1 THEN list[1]
    ELSE list[1] \o sep \o joinWith(Tail(list), sep)

\* url.domainToASCII: '' for a domain that holds a forbidden character (here the
\* space), else every label in its ASCII form
domainToASCII(domain) ==
    IF Chars(domain) \cap WhiteSpace # {} THEN <<>>
    ELSE LET labels == split(domain, ".")
         IN  joinWith([i \in 1..Len(labels) |-> labelToASCII(labels[i])], <<".">>)

\* mutant of filePathToDomain: the joined path is taken as it is spelled
filePathToDomainRaw(rel) ==
    LET named == [rel EXCEPT ![Len(rel)] = stripTxt(rel[Len(rel)])]
    IN  joinWith(reverse(named), <<".">>)

\* rel: the segments of path.relative(libDomainsRoot, filePath)
filePathToDomain(rel) ==
    LET named == [rel EXCEPT ![Len(rel)] = stripTxt(rel[Len(rel)])]
        domain == joinWith(reverse(named), <<".">>)
    IN  domainToASCII(toLowerCase(domain))

isEntryLine(line) == line # <<>> /\ Head(line) # "#"

\* text.split(/\r?\n/).map(trim).filter(line && !line.startsWith('#')), on the
\* lines of the text
parseSchoolFile(lines) ==
    SelectSeq([i \in 1..Len(lines) |-> trim(lines[i])], isEntryLine)

\* the loop over the lines of stoplist.txt or tlds.txt: line.trim().toLowerCase(),
\* added unless empty or a comment
controlSet(lines) ==
    {l \in {toLowerCase(trim(lines[i])) : i \in 1..Len(lines)} : isEntryLine(l)}

\* await fs.access(libDomains)
Access(exists) ==
    /\ pc = "access"
    /\ pc' = IF exists THEN "stoplist" ELSE "failed"
    /\ UNCHANGED buildVars
    /\ UNCHANGED <<normVars, engineVars>>

\* the first try block: a failed read is rethrown and ends readSwot
ReadStoplist(readable, lines) ==
    /\ pc = "stoplist"
    /\ IF readable
       THEN /\ stoplist' = controlSet(lines)
            /\ pc' = "tlds"
       ELSE /\ pc' = "failed"
            /\ UNCHANGED stoplist
    /\ UNCHANGED <<institutions, tlds, walked>>
    /\ UNCHANGED <<normVars, engineVars>>

\* the second try block
ReadTlds(readable, lines) ==
    /\ pc = "tlds"
    /\ IF readable
       THEN /\ tlds' = controlSet(lines)
            /\ pc' = "walk"
       ELSE /\ pc' = "failed"
            /\ UNCHANGED tlds
    /\ UNCHANGED <<institutions, stoplist, walked>>
    /\ UNCHANGED <<normVars, engineVars>>

ReservedNames ==
    {<<"s", "t", "o", "p", "l", "i", "s", "t">> \o DotTxt,
     <<"t", "l", "d", "s">> \o DotTxt,
     <<"a", "b", "u", "s", "e", "d">> \o DotTxt}

\* the four `continue` tests at the head of the loop body
isSkipped(rel) ==
    \/ ~endsWith(rel[Len(rel)], DotTxt)
    \/ rel[Len(rel)] \in ReservedNames

\* mutant of merge: a later file replaces the entry of an earlier one
mergeLast(inst, domain, schoolNames) ==
    IF Len(schoolNames) > 0
    THEN [k \in DOMAIN inst \cup {domain} |-> IF k = domain THEN schoolNames ELSE inst[k]]
    ELSE inst

\* if (schoolNames.length > 0 && !institutions.has(domain)) institutions.set(...)
merge(inst, domain, schoolNames) ==
    IF Len(schoolNames) > 0 /\ domain \notin DOMAIN inst
    THEN [k \in DOMAIN inst \cup {domain} |-> IF k = domain THEN schoolNames ELSE inst[k]]
    ELSE inst

MaxFiles == 2

\* one turn of the loop over walk(libDomains): the file at rel, which reads as
\* lines or fails to read
WalkFile(rel, readable, lines) ==
    /\ pc = "walk"
    /\ Len(walked) < MaxFiles
    /\ IF isSkipped(rel)
       THEN UNCHANGED <<institutions, walked>>
       ELSE LET domain == filePathToDomain(rel)
                schoolNames == parseSchoolFile(lines)
            IN  /\ institutions' =
                       IF readable THEN merge(institutions, domain, schoolNames)
                       ELSE institutions
                /\ walked' = Append(walked,
                       [key |-> domain, ok |-> readable,
                        names |-> IF readable THEN schoolNames ELSE <<>>])
    /\ UNCHANGED <<pc, stoplist, tlds>>
    /\ UNCHANGED <<normVars, engineVars>>

\* the walk is exhausted: readSwot returns the three structures
Return ==
    /\ pc = "walk"
    /\ pc' = "done"
    /\ UNCHANGED buildVars
    /\ UNCHANGED <<normVars, engineVars>>

(***************************************************************************)
(* SpecBuild: readSwot over control files and institution files whose      *)
(* names and lines mix cases, non-ASCII letters, blanks and comments       *)
(***************************************************************************)
ControlLines ==
    {<<"a">>, <<"A">>, <<EAcute>>, <<CapitalEAcute>>, <<" ", "a", " ">>,
     <<"#", "a">>, <<>>}
ControlTexts ==
    {<<>>} \cup {<<l>> : l \in ControlLines} \cup {<<(<<"A">>), (<<EAcute>>)>>}

TreePaths ==
    {<<(<<"a">> \o DotTxt)>>,
     <<(<<"A">> \o DotTxt)>>,
     <<(<<"a">>), (<<"a">> \o DotTxt)>>,
     <<(<<"a">>), (<<"A">> \o DotTxt)>>,
     <<(<<CapitalEAcute>> \o DotTxt)>>,
     <<(<<"a", " ", "a">> \o DotTxt)>>,
     <<(<<"a", ".", "T", "X", "T">>)>>,
     <<(<<"a">>)>>,
     <<(<<"a">>), (<<"s", "t", "o", "p", "l", "i", "s", "t">> \o DotTxt)>>,
     <<(<<"t", "l", "d", "s">> \o DotTxt)>>,
     <<(<<"a", "b", "u", "s", "e", "d">> \o DotTxt)>>}

SchoolTexts ==
    {<<>>,
     <<(<<"#", "N">>)>>,
     <<(<<"N">>)>>,
     <<(<<" ", "N", " ">>), (<<>>)>>,
     <<(<<"M">>)>>,
     <<(<<"N">>), (<<"M">>)>>}

InitBuild ==
    /\ pc = "access"
    /\ BuildIdle
    /\ EngineIdle
    /\ input = <<>>
    /\ parts = <<>>

NextBuild ==
    \/ \E exists \in BOOLEAN : Access(exists)
    \/ \E readable \in BOOLEAN : \E lines \in ControlTexts : ReadStoplist(readable, lines)
    \/ \E readable \in BOOLEAN : \E lines \in ControlTexts : ReadTlds(readable, lines)
    \/ \E rel \in TreePaths : \E readable \in BOOLEAN : \E lines \in SchoolTexts :
           WalkFile(rel, readable, lines)
    \/ Return

SpecBuild == InitBuild /\ [][NextBuild]_vars

isLowerCase(s) == \A i \in 1..Len(s) : lowerChar(s[i]) = s[i]
isAscii(s) == Chars(s) \cap NonAscii = {}

\* C8 (original statement): every key of the Institution Map and every member of
\* the Stoplist Set and of the Academic TLD Set is lowercase and ASCII-only.
C8_Original ==
    /\ \A k \in DOMAIN institutions : isLowerCase(k) /\ isAscii(k)
    /\ \A d \in stoplist : isLowerCase(d) /\ isAscii(d)
    /\ \A d \in tlds : isLowerCase(d) /\ isAscii(d)

\* C8 (amended): every key of the Institution Map is lowercase and ASCII-only;
\* every member of the Stoplist Set and of the Academic TLD Set is lowercase, and
\* keeps the non-ASCII characters of its line.
C8_Keys ==
    /\ \A k \in DOMAIN institutions : isLowerCase(k) /\ isAscii(k)
    /\ \A d \in stoplist : isLowerCase(d)
    /\ \A d \in tlds : isLowerCase(d)

\* C8 witness: a file named with a capital non-ASCII letter was keyed in ASCII,
\* and a capital line of tlds.txt was stored in lowercase
C8_Witness ==
    /\ pc = "done"
    /\ <<"x", "n", "-", "-", "9", "c", "a">> \in DOMAIN institutions
    /\ <<"a">> \in tlds
    /\ stoplist # {}

\* the files yielded so far that were read and parsed to names under key k
FilesWithNames(k) ==
    {i \in 1..Len(walked) :
        walked[i].key = k /\ walked[i].ok /\ walked[i].names # <<>>}

\* C9: the Institution Map holds for each key exactly the names of the first
\* file with that key that was read and parsed to a non-empty list; a later file
\* never replaces or extends them, a file that fails to read or holds no name
\* inserts nothing and does not stop the walk, and no key maps to an empty list.
C9_FirstSeenWins ==
    /\ DOMAIN institutions = {walked[i].key : i \in {j \in 1..Len(walked) :
                                   walked[j].ok /\ walked[j].names # <<>>}}
    /\ \A k \in DOMAIN institutions :
           /\ institutions[k] = walked[Least(FilesWithNames(k))].names
           /\ institutions[k] # <<>>
    /\ walked # <<>> => pc \in {"walk", "done"}

\* C9 witness: after an unreadable file, two files with the same key and different
\* names were read (with MaxFiles files in all), and the key kept the first names
C9_Witness ==
    /\ pc = "done"
    /\ Len(walked) = 2
    /\ walked[1].key = walked[2].key
    /\ walked[1].ok /\ walked[2].ok
    /\ walked[1].names = <<(<<"N">>)>>
    /\ walked[2].names = <<(<<"M">>)>>
    /\ institutions[walked[1].key] = <<(<<"N">>)>>

(***************************************************************************)
(* SpecNorm: domainParts applied to every string of a bounded alphabet     *)
(***************************************************************************)
MaxInputLen == 5
NormChars == {"a", "A", ".", "@", "/", ":", " "}
NormInputs == Strings(NormChars, MaxInputLen)

InitNorm ==
    /\ pc = "call"
    /\ input \in NormInputs
    /\ parts = <<>>
    /\ EngineIdle
    /\ BuildIdle

DomainPartsCall ==
    /\ pc = "call"
    /\ parts' = domainParts(input)
    /\ pc' = "returned"
    /\ UNCHANGED input
    /\ UNCHANGED <<engineVars, buildVars>>

NextNorm == DomainPartsCall

SpecNorm == InitNorm /\ [][NextNorm]_vars

(***************************************************************************)
(* The normalisation as the specification words it, written over positions *)
(***************************************************************************)

Trimmed(s) ==
    LET solid == {i \in 1..Len(s) : s[i] \notin WhiteSpace}
    IN  IF solid = {} THEN <<>> ELSE SubSeq(s, Least(solid), Greatest(solid))

BeforeFirst(s, c) ==
    IF c \in Chars(s) THEN SubSeq(s, 1, Least(Positions(s, c)) - 1) ELSE s

AfterFirst(s, c) ==
    IF c \in Chars(s) THEN SubSeq(s, Least(Positions(s, c)) + 1, Len(s)) ELSE s

AfterLast(s, c) ==
    IF c \in Chars(s) THEN SubSeq(s, Greatest(Positions(s, c)) + 1, Len(s)) ELSE s

\* s without a leading scheme://, the scheme being a run of lowercase letters
WithoutScheme(s) ==
    LET ends == {n \in 1..Len(s) :
                    /\ \A i \in 1..n : s[i] \in LowerLetters
                    /\ n + 3 <= Len(s)
                    /\ s[n + 1] = ":" /\ s[n + 2] = "/" /\ s[n + 3] = "/"}
    IN  IF ends = {} THEN s ELSE SubSeq(s, Greatest(ends) + 4, Len(s))

\* s without everything up to the last '@' that precedes the first '/'
WithoutUserInfo(s) ==
    LET authority == BeforeFirst(s, "/")
    IN  IF "@" \in Chars(authority)
        THEN SubSeq(s, Greatest(Positions(authority, "@")) + 1, Len(s))
        ELSE s

\* the labels of a host, top-level label first
RECURSIVE LabelsTopFirst(_)
LabelsTopFirst(h) ==
    IF "." \in Chars(h)
    THEN LET p == Greatest(Positions(h, "."))
         IN  <<SubSeq(h, p + 1, Len(h))>> \o LabelsTopFirst(SubSeq(h, 1, p - 1))
    ELSE <<h>>

LabelsOf(h) == IF h = <<>> THEN <<>> ELSE LabelsTopFirst(h)

\* C10 as stated: everything up to the FINAL '@' goes first
ClaimedHost(s) ==
    BeforeFirst(BeforeFirst(WithoutScheme(AfterLast(toLowerCase(Trimmed(s)), "@")), "/"), ":")

\* C10 as amended: the FIRST '@', the scheme, then the last '@' before the first '/'
AmendedHost(s) ==
    BeforeFirst(BeforeFirst(WithoutUserInfo(WithoutScheme(
        AfterFirst(toLowerCase(Trimmed(s)), "@"))), "/"), ":")

\* C10 (original statement): domainParts returns the labels of the host left by
\* trimming and lowercasing, dropping everything up to the final '@', stripping
\* scheme://, and cutting at the first '/' and then at the first ':'.
C10_Original == pc = "returned" => parts = LabelsOf(ClaimedHost(input))

\* C10 (amended): domainParts returns the labels (top-level first, none for an
\* empty host) of the host left by trimming and lowercasing, dropping everything
\* up to the first '@', stripping scheme://, dropping everything up to the last
\* '@' that precedes the first '/', and cutting at the first '/' and then ':'.
C10_DomainParts == pc = "returned" => parts = LabelsOf(AmendedHost(input))

\* C10 witness: an input with a local part and a path was normalised to two labels
C10_Witness ==
    /\ pc = "returned"
    /\ input = <<"@", "A", ".", "a", "/">>
    /\ parts = <<<<"a">>, <<"a">>>>

(***************************************************************************)
(* Spec: the engine loaded from an artifact in any condition, then asked    *)
(* its boolean queries (findSchoolNames and its arrays are in SpecSchool)  *)
(***************************************************************************)
MaxEmailLen == 5
EmailChars == {"a", ".", "@", " "}
EmailInputs == Strings(EmailChars, MaxEmailLen)

\* a JSON object holding the three expected members
Packed(inst, stop, tld) ==
    [has |-> {"institutions", "stoplist", "tlds"},
     institutions |-> inst, stoplist |-> stop, tlds |-> tld]

KeyA == <<"a">>
KeyAA == <<"a", ".", "a">>
OneEntry(key, names) == [k \in {key} |-> names]

EngineInstitutions ==
    {<<>>, OneEntry(KeyAA, <<"Uni A">>), OneEntry(KeyA, <<>>)}
EngineStoplists == {<<>>, <<KeyAA>>}
EngineTlds == {<<>>, <<KeyA>>}

SoundArtifacts ==
    {[status |-> "object", json |-> Packed(i, s, t)] :
        i \in EngineInstitutions, s \in EngineStoplists, t \in EngineTlds}

\* absent, unreadable, not brotli, not JSON, JSON null, or a JSON object that
\* lacks some of the three members
DamagedArtifacts ==
    {[status |-> st, json |-> EmptyPacked] :
        st \in {"absent", "unreadable", "undecompressable", "not_json", "null_json"}}
    \cup
    {[status |-> "object",
      json |-> [has |-> h, institutions |-> OneEntry(KeyAA, <<"Uni A">>),
                stoplist |-> <<>>, tlds |-> <<KeyA>>]] :
        h \in (SUBSET {"institutions", "stoplist", "tlds"})
              \ {{"institutions", "stoplist", "tlds"}}}

isDamaged(a) ==
    \/ a.status # "object"
    \/ a.json.has # {"institutions", "stoplist", "tlds"}

EngineProbes == {<<"a", "@", "a", ".", "a">>, <<"a", ".", "a">>, <<"a">>, <<>>}

EngineBoot(artifacts) ==
    /\ pc = "boot"
    /\ artifact \in artifacts
    /\ DATA = NoData
    /\ heap = <<>>
    /\ held = 0
    /\ call = NoCall
    /\ loaded = NoData
    /\ input = <<>>
    /\ parts = <<>>
    /\ BuildIdle

Init == EngineBoot(SoundArtifacts \cup DamagedArtifacts)

Next ==
    \/ loadData
    \/ \E e \in EmailInputs : IsAcademicCall(e)
    \/ \E e \in EngineProbes : IsUnderTLDCall(e)
    \/ \E e \in EngineProbes : IsStoplistedCall(e)
    \/ Resume

Spec == Init /\ [][Next]_vars

\* C1: whenever isStoplisted(e) is true, isAcademic(e) returns false, whatever
\* the TLD set and the institution map say about the host of e.
C1_StoplistOverrides ==
    (call.op = "isAcademic" /\ isStoplisted(call.arg)) => call.bool = FALSE

\* C1 witness: isAcademic answered false for a well-shaped address that is
\* stoplisted although its host is under a TLD and matches an institution
C1_Witness ==
    /\ call.op = "isAcademic"
    /\ call.arg = <<"a", "@", "a", ".", "a">>
    /\ isStoplisted(call.arg)
    /\ isUnderTLD(call.arg)
    /\ findSchoolNames(call.arg) # <<>>
    /\ call.bool = FALSE

\* the two runs around the single '@' of an address free of whitespace
LocalRun(e) == SubSeq(e, 1, Least(Positions(e, "@")) - 1)
DomainRun(e) == SubSeq(e, Least(Positions(e, "@")) + 1, Len(e))
TwoRuns(e) ==
    /\ Cardinality(Positions(e, "@")) = 1
    /\ Chars(e) \cap WhiteSpace = {}
    /\ LocalRun(e) # <<>>
    /\ DomainRun(e) # <<>>

\* the shape as C2 words it: the second run contains a '.'
ClaimedShape(e) == TwoRuns(e) /\ "." \in Chars(DomainRun(e))

\* the shape as amended: a '.' of the second run is neither its first nor its
\* last character
AmendedShape(e) ==
    /\ TwoRuns(e)
    /\ \E p \in Positions(DomainRun(e), ".") : 1 < p /\ p < Len(DomainRun(e))

Composite(e) ==
    ~isStoplisted(e) /\ (isUnderTLD(e) \/ findSchoolNames(e) # <<>>)

\* C2 (original statement): isAcademic returns false for an input without the
\* shape run '@' run-containing-a-dot, and otherwise exactly
\* NOT isStoplisted AND (isUnderTLD OR findSchoolNames non-empty).
C2_Original ==
    call.op = "isAcademic" =>
        call.bool = (ClaimedShape(call.arg) /\ Composite(call.arg))

\* C2 (amended): the same, the shape requiring that the second run contains a
\* '.' with at least one character of the run before it and one after it.
C2_IsAcademic ==
    call.op = "isAcademic" =>
        call.bool = (AmendedShape(call.arg) /\ Composite(call.arg))

\* C2 witness: a well-shaped address of an academic host was answered true
C2_Witness ==
    /\ call.op = "isAcademic"
    /\ AmendedShape(call.arg)
    /\ ~isStoplisted(call.arg)
    /\ isUnderTLD(call.arg)
    /\ call.bool = TRUE

\* C6: whatever the condition of the artifact, loadData does not raise: it
\* yields the empty dataset, and every query then answers false or [].
C6_DegradedLoad ==
    (pc # "boot" /\ isDamaged(artifact)) =>
        /\ pc = "ready"
        /\ contents(DATA, heap).institutions = <<>>
        /\ DATA.stoplist = {}
        /\ DATA.tlds = {}
        /\ call.bool = FALSE
        /\ call.names = <<>>

(***************************************************************************)
(* SpecSuffix: one stoplist entry or one TLD entry of any spelling, and    *)
(* the queries built from the loaded entries                               *)
(***************************************************************************)
MaxEntryLen == 3
EntryChars == {"a", "A", ".", "@", "/", ":", " "}
EntryStrings == Strings(EntryChars, MaxEntryLen)

SuffixArtifacts ==
    {[status |-> "object", json |-> Packed(<<>>, <<d>>, <<>>)] : d \in EntryStrings}
    \cup
    {[status |-> "object", json |-> Packed(<<>>, <<>>, <<t>>)] : t \in EntryStrings}

UserAt == <<"u", "s", "e", "r", "@">>
XAt == <<"x", "@">>
Labels == {<<"a">>, <<"A">>, <<"a", "a">>}

InitSuffix == EngineBoot(SuffixArtifacts)

NextSuffix ==
    \/ loadData
    \/ \E d \in DATA.stoplist : \E e \in {d, UserAt \o d} : IsStoplistedCall(e)
    \/ \E t \in DATA.tlds : \E s \in Labels : IsUnderTLDCall(XAt \o s \o <<".">> \o t)
    \/ Resume

SpecSuffix == InitSuffix /\ [][NextSuffix]_vars

\* an entry that reads as a host: not empty, free of '@', '/' and ':', no
\* whitespace at either end, and not ending with '.'
IsHostEntry(d) ==
    /\ d # <<>>
    /\ Chars(d) \cap {"@", "/", ":"} = {}
    /\ d[1] \notin WhiteSpace
    /\ d[Len(d)] \notin WhiteSpace
    /\ d[Len(d)] # "."

\* C3 (original statement): for every entry d of the loaded Stoplist Set,
\* isStoplisted(d) and isStoplisted("user@" + d) return true.
C3_Original ==
    (call.op = "isStoplisted"
        /\ \E d \in DATA.stoplist : call.arg \in {d, UserAt \o d})
    => call.bool = TRUE

\* C3 (amended): for every entry d of the loaded Stoplist Set that is not empty,
\* holds no '@', '/' or ':', neither starts nor ends with whitespace and does not
\* end with '.', isStoplisted(d) and isStoplisted("user@" + d) return true.
C3_Stoplisted ==
    (call.op = "isStoplisted"
        /\ \E d \in DATA.stoplist : IsHostEntry(d) /\ call.arg \in {d, UserAt \o d})
    => call.bool = TRUE

\* C3 witness: the entry a.a, written A.a in the artifact, was found for user@a.a
C3_Witness ==
    /\ call.op = "isStoplisted"
    /\ artifact.json.stoplist = <<(<<"A", ".", "a">>)>>
    /\ DATA.stoplist = {KeyAA}
    /\ call.arg = UserAt \o KeyAA
    /\ call.bool = TRUE

MaxHostLen == 5
HostStrings == Strings({"a", "."}, MaxHostLen)
SchoolInputs == HostStrings \cup {XAt \o h : h \in HostStrings}

NameLists == {<<>>, <<"Uni A">>, <<"Uni B">>}

SchoolMaps ==
    {[k \in keys |-> IF k = KeyA THEN na ELSE naa] :
        keys \in SUBSET {KeyA, KeyAA}, na \in NameLists, naa \in NameLists}

SchoolArtifacts ==
    {[status |-> "object", json |-> Packed(m, <<KeyAA>>, <<KeyA>>)] : m \in SchoolMaps}

InitSchool == EngineBoot(SchoolArtifacts)

NextSchool ==
    \/ loadData
    \/ \E e \in SchoolInputs : FindSchoolNamesCall(e)
    \/ \E e \in EngineProbes : IsAcademicCall(e)
    \/ \E e \in EngineProbes : IsUnderTLDCall(e)
    \/ \E e \in EngineProbes : IsStoplistedCall(e)
    \/ MutateReturned
    \/ Resume

SpecSchool == InitSchool /\ [][NextSchool]_vars

\* the suffix made of the k top-most labels of a host
SuffixOf(ps, k) == joinHost(SubSeq(ps, 1, k))

\* the suffixes of the host of e that are keys of the Institution Map
KeySuffixes(e) ==
    {k \in 1..Len(domainParts(e)) :
        SuffixOf(domainParts(e), k) \in DOMAIN loaded.institutions}

\* those among them whose name list is not empty
NamedSuffixes(e) ==
    {k \in KeySuffixes(e) :
        loaded.institutions[SuffixOf(domainParts(e), k)] # <<>>}

ListAt(e, k) == loaded.institutions[SuffixOf(domainParts(e), k)]

\* C5 (original statement): findSchoolNames returns the list stored under the
\* shortest suffix of the host that is a key of the Institution Map, and the
\* empty list if and only if no suffix of the host is a key.
C5_Original ==
    call.op = "findSchoolNames" =>
        IF KeySuffixes(call.arg) = {}
        THEN call.names = <<>>
        ELSE /\ call.names = ListAt(call.arg, Least(KeySuffixes(call.arg)))
             /\ call.names # <<>>

\* the host of e does not end with '.': its top-level label is not empty
TopLabelled(e) == domainParts(e) = <<>> \/ domainParts(e)[1] # <<>>

\* C5 (amended): for an input whose host does not end with '.', findSchoolNames
\* returns the list stored under the shortest suffix of the host that is a key
\* with a non-empty list (a key with an empty list is passed over), and the empty
\* list if and only if no suffix of the host is such a key.
C5_FindSchoolNames ==
    (call.op = "findSchoolNames" /\ TopLabelled(call.arg)) =>
        IF NamedSuffixes(call.arg) = {}
        THEN call.names = <<>>
        ELSE /\ call.names = ListAt(call.arg, Least(NamedSuffixes(call.arg)))
             /\ call.names # <<>>

\* C5 witness: both a and a.a are keys with names, and x@a.a.a got the names of a
C5_Witness ==
    /\ call.op = "findSchoolNames"
    /\ call.arg = XAt \o <<"a", ".", "a", ".", "a">>
    /\ loaded.institutions = [k \in {KeyA, KeyAA} |->
                                 IF k = KeyA THEN <<"Uni A">> ELSE <<"Uni B">>]
    /\ call.names = <<"Uni A">>

\* what findSchoolNames answers for e on the dataset as it was loaded
AsLoaded(e) ==
    LET hit == findFrom(loaded.institutions, domainParts(e), 1, <<>>)
    IN  IF hit = <<>> THEN <<>> ELSE loaded.institutions[hit[1]]

\* C7: no query changes the loaded dataset, and the array findSchoolNames hands
\* out is never one of the dataset's arrays, so that a caller changing it changes
\* no later answer: every findSchoolNames answer is the one the dataset as it was
\* loaded gives for that input.
C7_DatasetUntouched ==
    pc \in {"ready", "returned"} =>
        /\ contents(DATA, heap) = loaded
        /\ held # 0 => held > dataRefs
        /\ call.op = "findSchoolNames" => call.names = AsLoaded(call.arg)

\* C7 witness: the caller changed the array it held, and the same query was then
\* answered from the untouched dataset
C7_Witness ==
    /\ pc = "ready"
    /\ held # 0
    /\ heap[held] = <<"Evil", "Evil">>
    /\ \E k \in DOMAIN DATA.institutions : heap[DATA.institutions[k]] = <<"Uni A">>

====
